---- MODULE Spec2Model ----
(***************************************************************************)
(* with-connect: one session of main() in src/main.py.                     *)
(*                                                                         *)
(* Text is a sequence of atoms (TLA+ strings).  Version strings and        *)
(* base64 text are spelled one character per atom; words that the code     *)
(* only compares or copies whole ("latest", a key name, an image name)     *)
(* are one atom.  Log text is a sequence of log fragments.                 *)
(***************************************************************************)
EXTENDS Integers, Sequences, FiniteSets, TLC

(***************************************************************************)
(* Bounds of the model.                                                    *)
(***************************************************************************)
\* bytes of bootstrap secret drawn per session (os.urandom(32) in the code)
NumSecretBytes == 2
\* fragments the container writes to its log during one session
MaxLogLen == 3
\* -e/--env options on the command line
MaxEnvVars == 2

(***************************************************************************)
(* Generic sequence helpers used for Python str operations.                *)
(***************************************************************************)
Range(s) == {s[i] : i \in 1..Len(s)}

\* index of the first atom equal to sep, 0 when there is none
FirstIndex(s, sep) ==
    IF \E i \in 1..Len(s) : s[i] = sep
    THEN CHOOSE i \in 1..Len(s) : s[i] = sep /\ \A j \in 1..(i - 1) : s[j] # sep
    ELSE 0

\* Python: s.split(sep)
RECURSIVE Split(_, _)
Split(s, sep) ==
    LET i == FirstIndex(s, sep) IN
    IF i = 0 THEN <<s>>
    ELSE <<SubSeq(s, 1, i - 1)>> \o Split(SubSeq(s, i + 1, Len(s)), sep)

\* Python: s.split(sep, 1)
Split1(s, sep) ==
    LET i == FirstIndex(s, sep) IN
    IF i = 0 THEN <<s>>
    ELSE <<SubSeq(s, 1, i - 1), SubSeq(s, i + 1, Len(s))>>

(***************************************************************************)
(* base64 (standard alphabet), as base64.b64encode / base64.b64decode.     *)
(***************************************************************************)
B64Alphabet ==
    <<"A","B","C","D","E","F","G","H","I","J","K","L","M","N","O","P",
      "Q","R","S","T","U","V","W","X","Y","Z","a","b","c","d","e","f",
      "g","h","i","j","k","l","m","n","o","p","q","r","s","t","u","v",
      "w","x","y","z","0","1","2","3","4","5","6","7","8","9","+","/">>

B64Char(n) == B64Alphabet[n + 1]
B64Index(c) == (CHOOSE i \in 1..64 : B64Alphabet[i] = c) - 1
IsB64Char(c) == \E i \in 1..64 : B64Alphabet[i] = c

\* base64.b64encode(bytes).decode("utf-8")
RECURSIVE b64encode(_)
b64encode(bytes) ==
    IF Len(bytes) = 0 THEN <<>>
    ELSE IF Len(bytes) = 1 THEN
        LET n == bytes[1] * 65536 IN
        <<B64Char(n \div 262144), B64Char((n \div 4096) % 64), "=", "=">>
    ELSE IF Len(bytes) = 2 THEN
        LET n == bytes[1] * 65536 + bytes[2] * 256 IN
        <<B64Char(n \div 262144), B64Char((n \div 4096) % 64),
          B64Char((n \div 64) % 64), "=">>
    ELSE
        LET n == bytes[1] * 65536 + bytes[2] * 256 + bytes[3] IN
        <<B64Char(n \div 262144), B64Char((n \div 4096) % 64),
          B64Char((n \div 64) % 64), B64Char(n % 64)>>
        \o b64encode(SubSeq(bytes, 4, Len(bytes)))

\* the characters b64decode keeps: it discards everything outside the alphabet
RECURSIVE B64Keep(_)
B64Keep(s) ==
    IF Len(s) = 0 THEN <<>>
    ELSE (IF IsB64Char(s[1]) \/ s[1] = "=" THEN <<s[1]>> ELSE <<>>)
         \o B64Keep(Tail(s))

RECURSIVE B64Quads(_)
B64Quads(s) ==
    IF Len(s) < 2 \/ s[1] = "=" \/ s[2] = "=" THEN <<>>
    ELSE LET a == B64Index(s[1])
             b == B64Index(s[2])
         IN  IF Len(s) < 3 \/ s[3] = "=" THEN
                 <<(a * 4 + b \div 16) % 256>>
             ELSE IF Len(s) < 4 \/ s[4] = "=" THEN
                 LET c == B64Index(s[3]) IN
                 <<(a * 4 + b \div 16) % 256, ((b % 16) * 16 + c \div 4) % 256>>
             ELSE
                 LET c == B64Index(s[3])
                     d == B64Index(s[4])
                 IN  <<(a * 4 + b \div 16) % 256,
                       ((b % 16) * 16 + c \div 4) % 256,
                       ((c % 4) * 64 + d) % 256>>
                     \o B64Quads(SubSeq(s, 5, Len(s)))

\* base64.b64decode(text.encode("utf-8")), for text made of whole quads
b64decode(s) == B64Quads(B64Keep(s))

(***************************************************************************)
(* get_docker_tag                                                          *)
(***************************************************************************)
Digits == <<"0","1","2","3","4","5","6","7","8","9">>
IsDigit(c) == \E i \in 1..10 : Digits[i] = c
DigitVal(c) == (CHOOSE i \in 1..10 : Digits[i] = c) - 1

RECURSIVE DigitsVal(_)
DigitsVal(s) ==
    IF Len(s) = 0 THEN 0
    ELSE DigitsVal(SubSeq(s, 1, Len(s) - 1)) * 10 + DigitVal(s[Len(s)])

\* int(text) for text of one optional sign and decimal digits; everything
\* else the model's versions are made of makes int() raise ValueError
IntParses(s) ==
    LET body == IF Len(s) > 0 /\ s[1] \in {"+", "-"} THEN Tail(s) ELSE s
    IN  Len(body) > 0 /\ \A i \in 1..Len(body) : IsDigit(body[i])

IntValue(s) ==
    IF s[1] = "-" THEN 0 - DigitsVal(Tail(s))
    ELSE IF s[1] = "+" THEN DigitsVal(Tail(s))
    ELSE DigitsVal(s)

\* variant: the jammy boundary is tested with >= instead of >
get_docker_tag_JuneIsJammy(version) ==
    IF version \in {<<"latest">>, <<"release">>} THEN <<"jammy">>
    ELSE LET parts == Split(version, ".") IN
         IF Len(parts) < 2 THEN version
         ELSE IF ~(IntParses(parts[1]) /\ IntParses(parts[2])) THEN version
         ELSE LET year == IntValue(parts[1])
                  month == IntValue(parts[2])
              IN  IF year > 2023 \/ (year = 2023 /\ month >= 6)
                  THEN <<"jammy-">> \o version
                  ELSE IF year > 2022 \/ (year = 2022 /\ month >= 9)
                  THEN <<"bionic-">> \o version
                  ELSE version

\* variant: a ValueError from int() falls back to the default tag
get_docker_tag_UnparsedIsJammy(version) ==
    IF version \in {<<"latest">>, <<"release">>} THEN <<"jammy">>
    ELSE LET parts == Split(version, ".") IN
         IF Len(parts) < 2 THEN version
         ELSE IF ~(IntParses(parts[1]) /\ IntParses(parts[2])) THEN <<"jammy">>
         ELSE LET year == IntValue(parts[1])
                  month == IntValue(parts[2])
              IN  IF year > 2023 \/ (year = 2023 /\ month > 6)
                  THEN <<"jammy-">> \o version
                  ELSE IF year > 2022 \/ (year = 2022 /\ month >= 9)
                  THEN <<"bionic-">> \o version
                  ELSE version

get_docker_tag(version) ==
    IF version \in {<<"latest">>, <<"release">>} THEN <<"jammy">>
    ELSE LET parts == Split(version, ".") IN
         IF Len(parts) < 2 THEN version
         ELSE IF ~(IntParses(parts[1]) /\ IntParses(parts[2])) THEN version
         ELSE LET year == IntValue(parts[1])
                  month == IntValue(parts[2])
              IN  IF year > 2023 \/ (year = 2023 /\ month > 6)
                  THEN <<"jammy-">> \o version
                  ELSE IF year > 2022 \/ (year = 2022 /\ month >= 9)
                  THEN <<"bionic-">> \o version
                  ELSE version

(***************************************************************************)
(* Paths: a sequence of components; the first component "/" makes the path *)
(* absolute and "~" stands for the user's home directory.                  *)
(***************************************************************************)
HomeDir == <<"/", "home", "user">>
WorkDir == <<"/", "work">>

\* os.path.expanduser
expanduser(path) ==
    IF Len(path) > 0 /\ path[1] = "~" THEN HomeDir \o Tail(path) ELSE path

\* os.path.normpath of an absolute path: "." components are dropped
RECURSIVE DropDots(_)
DropDots(path) ==
    IF Len(path) = 0 THEN <<>>
    ELSE (IF path[1] = "." THEN <<>> ELSE <<path[1]>>) \o DropDots(Tail(path))

\* os.path.abspath
abspath(path) ==
    IF Len(path) > 0 /\ path[1] = "/" THEN DropDots(path)
    ELSE DropDots(WorkDir \o path)

\* os.path.abspath(os.path.expanduser(arg))
ResolvePath(arg) == abspath(expanduser(arg))

(***************************************************************************)
(* Program constants.                                                      *)
(***************************************************************************)
DEFAULT_IMAGE == <<"rstudio/rstudio-connect">>
\* names bound at module level in main.py that pull_image can look up
ModuleGlobals == {"DEFAULT_IMAGE"}
\* is_port_open("localhost", args.port, timeout=60.0)
NET_TIMEOUT == 60
\* wait_for_http_server(container, timeout=60.0, poll_interval=2.0)
HTTP_TIMEOUT == 60
POLL_INTERVAL == 2

KEY_ENABLED == <<"CONNECT_BOOTSTRAP_ENABLED">>
KEY_SECRET == <<"CONNECT_BOOTSTRAP_SECRETKEY">>

NoExc == [type |-> "none", msg |-> "", path |-> <<>>]
RuntimeError(m, p) == [type |-> "RuntimeError", msg |-> m, path |-> p]
OtherError(t) == [type |-> t, msg |-> "", path |-> <<>>]

MSG_LICENSE_FILE == "License file does not exist"
MSG_CONFIG_FILE == "Config file does not exist"
MSG_PULL == "Failed to pull image and no local copy available"
MSG_NET_TIMEOUT == "Posit Connect did not start within 60 seconds."
MSG_HTTP_TIMEOUT == "Posit Connect did not log HTTP server start within 60 seconds."
MSG_LICENSE == "Unable to obtain a valid license. Your Posit Connect license may be expired or invalid. Please check your license file."
MSG_BOOTSTRAP == "Failed to bootstrap Connect and retrieve API key"

(***************************************************************************)
(* Container log text: a sequence of lines.  PhrasesIn(line) is the set of *)
(* the literals wait_for_http_server searches for that occur in the line.  *)
(***************************************************************************)
LINE_HTTP_3939 == "Starting HTTP server on [::]:3939"
LINE_HTTP_8080 == "Starting HTTP server on [::]:8080"
LINE_ADDRESS == "Server address: http://localhost:3939"
LINE_LICENSE == "Unable to obtain a valid license: Your Posit Connect license has expired."
LINE_VERSION == "Starting Posit Connect v2025.09.0"
LogLines == {LINE_HTTP_3939, LINE_HTTP_8080, LINE_ADDRESS, LINE_LICENSE, LINE_VERSION}

PHRASE_LICENSE == "Unable to obtain a valid license"
PHRASE_HTTP == "Starting HTTP server on"
PHRASE_PORT == ":3939"

PhrasesIn(line) ==
    CASE line = LINE_HTTP_3939 -> {PHRASE_HTTP, PHRASE_PORT}
      [] line = LINE_HTTP_8080 -> {PHRASE_HTTP}
      [] line = LINE_ADDRESS -> {PHRASE_PORT}
      [] line = LINE_LICENSE -> {PHRASE_LICENSE}
      [] OTHER -> {}

\* Python: phrase in logs
InLogs(phrase, text) == \E i \in 1..Len(text) : phrase \in PhrasesIn(text[i])

\* extract_server_version: the group of the first match of
\* "Starting Posit Connect v([\d.]+[\w\-+.]*)", "None" without a match
extract_server_version(text) ==
    IF \E i \in 1..Len(text) : text[i] = LINE_VERSION THEN "2025.09.0" ELSE "None"

(***************************************************************************)
(* State.                                                                  *)
(***************************************************************************)
VARIABLES
    args,            \* parse_args(): image, version, license, config, env_vars, command
    fs,              \* absolute paths that exist on the host
    local_images,    \* image names in the engine's local cache
    urandom,         \* the bytes os.urandom returns in this session
    log_limit,       \* lines the container writes in this session
    registry_up,     \* whether the registry can serve the image to the engine
    wait_timeout,    \* wait_for_http_server: the timeout argument
    pc,              \* position of the process
    bootstrap_secret,\* main: bootstrap_secret
    image_name,      \* main: image_name
    container_env,   \* main: container_env, as passed to containers.run
    container,       \* "none", "running" or "stopped"
    stop_calls,      \* calls of container.stop()
    pull_attempts,   \* calls of pull_image
    engine_pulls,    \* calls of client.api.pull that reached the engine
    pull_result,     \* how pull_image ended: "none" (not called), "ok", "failed"
    logs,            \* what container.logs() returns now
    clock,           \* time.time(), seconds since the container was started
    deadline,        \* wait_for_http_server: deadline
    version,         \* wait_for_http_server: version
    polls,           \* container.logs() calls made by the wait loop
    sleeps,          \* time.sleep calls made by the wait loop
    final_logs,      \* text read by the poll on which the wait ended
    wait_result,     \* "none", "True", "False" or "LicenseError"
    secret_bytes,    \* get_api_key: secret_bytes given to TokenGenerator
    api_key,         \* main: api_key
    child_env,       \* environment bindings added for the child command
    child,           \* how the child command ended, NoChild before
    log_dumps,       \* times the container logs were printed for diagnosis
    exc,             \* exception propagating out of main
    exit_code,       \* main: exit_code (-1 before it is assigned)
    stderr,          \* message printed by the __main__ handler
    exit_status,     \* exit status of the process (-1 while it runs)
    port_open,       \* result of is_port_open: "none", "True" or "False"
    phases,          \* phases entered so far, in order
    failed_at        \* Len(phases) when an exception was raised, 0 before

vars == <<args, fs, local_images, urandom, log_limit, registry_up,
          wait_timeout, pc, bootstrap_secret,
          image_name, container_env, container, stop_calls, pull_attempts,
          engine_pulls, logs, clock, deadline, version, polls, sleeps,
          final_logs, wait_result, secret_bytes, api_key, child_env,
          log_dumps, exc, exit_code, stderr, exit_status, port_open,
          phases, failed_at, pull_result, child>>

inputVars == <<args, fs, urandom, log_limit, registry_up, wait_timeout>>
waitVars == <<deadline, version, polls, sleeps, final_logs, wait_result>>

(***************************************************************************)
(* Inputs of a session.                                                    *)
(***************************************************************************)
VERSION_RELEASE == <<"release">>
VERSION_LATEST == <<"latest">>
VERSION_PINNED == <<"2","0","2","4",".","0","8",".","0">>

LICENSE_DEFAULT == <<".", "rstudio-connect.lic">>
LICENSE_HOME == <<"~", "connect.lic">>
CONFIG_NONE == <<>>
CONFIG_FILE == <<"connect.gcfg">>

ENV_SECRET == <<"CONNECT_BOOTSTRAP_SECRETKEY", "=", "A", "A", "A", "=">>
ENV_FOO == <<"FOO", "=", "b", "a", "r">>
ENV_FOO2 == <<"FOO", "=", "b", "=", "c">>
ENV_NOEQ == <<"NOEQUALS">>
EnvVarChoices == {ENV_SECRET, ENV_FOO, ENV_FOO2, ENV_NOEQ}

COMMAND_NONE == <<>>
COMMAND_SOME == <<"rsconnect", "list">>

ByteChoices == {0, 77, 255}

NoChild == [kind |-> "none", code |-> 0]

EmptyDict == [k \in {} |-> <<>>]
\* Python: d[k] = v
DictSet(d, k, v) == [x \in (DOMAIN d) \cup {k} |-> IF x = k THEN v ELSE d[x]]

SeqsUpTo(S, n) == UNION {[1..k -> S] : k \in 0..n}

ArgsOf(lic, cfg, ver, envs, cmd) ==
    [image |-> DEFAULT_IMAGE, version |-> ver, license |-> lic, config |-> cfg,
     env_vars |-> envs, command |-> cmd]

\* sessions that exercise the orchestration: every path through main
OrchestrationArgs ==
    {ArgsOf(lic, cfg, ver, <<>>, cmd) :
        lic \in {LICENSE_DEFAULT, LICENSE_HOME}, cfg \in {CONFIG_NONE, CONFIG_FILE},
        ver \in {VERSION_RELEASE, VERSION_LATEST, VERSION_PINNED}, cmd \in {COMMAND_NONE, COMMAND_SOME}}

\* sessions that exercise the container environment and the secret; the -e
\* options do not reach the child command, which is run without them only
EnvironmentArgs ==
    {ArgsOf(LICENSE_DEFAULT, CONFIG_NONE, VERSION_PINNED, envs, COMMAND_NONE) :
        envs \in SeqsUpTo(EnvVarChoices, MaxEnvVars)}
    \cup {ArgsOf(LICENSE_DEFAULT, CONFIG_NONE, VERSION_PINNED, <<>>, COMMAND_SOME)}

InitWith(Sessions, Secrets, limit, Registries, Timeouts) ==
    /\ args \in Sessions
    /\ fs \in SUBSET ({ResolvePath(args.license)} \cup
                      (IF args.config = CONFIG_NONE THEN {}
                       ELSE {ResolvePath(args.config)}))
    /\ local_images \in SUBSET {args.image \o <<":">> \o get_docker_tag(args.version)}
    /\ urandom \in Secrets
    /\ log_limit = limit
    /\ registry_up \in Registries
    /\ wait_timeout \in Timeouts
    /\ pc = "validate"
    /\ bootstrap_secret = <<>>
    /\ image_name = <<>>
    /\ container_env = EmptyDict
    /\ container = "none"
    /\ stop_calls = 0
    /\ pull_attempts = 0
    /\ engine_pulls = 0
    /\ pull_result = "none"
    /\ logs = <<>>
    /\ clock = 0
    /\ deadline = 0
    /\ version = "None"
    /\ polls = 0
    /\ sleeps = 0
    /\ final_logs = <<>>
    /\ wait_result = "none"
    /\ secret_bytes = <<>>
    /\ api_key = "None"
    /\ child_env = EmptyDict
    /\ child = NoChild
    /\ log_dumps = 0
    /\ exc = NoExc
    /\ exit_code = -1
    /\ stderr = NoExc
    /\ exit_status = -1
    /\ port_open = "none"
    /\ phases = <<>>
    /\ failed_at = 0

Init ==
    InitWith(OrchestrationArgs, {[i \in 1..NumSecretBytes |-> 77]}, MaxLogLen,
             {TRUE}, {HTTP_TIMEOUT})

(***************************************************************************)
(* main, lines 192-209: validation, set-up, image acquisition.             *)
(***************************************************************************)
\* raise: the exception leaves the enclosing function
Raise(e) ==
    /\ exc' = e
    /\ failed_at' = Len(phases')

\* variant: the config path is not checked
ValidatePaths_NoConfigCheck(a, files) ==
    IF ResolvePath(a.license) \notin files
    THEN RuntimeError(MSG_LICENSE_FILE, ResolvePath(a.license))
    ELSE NoExc

\* main, lines 194-201: the exception the path checks raise, NoExc if none
ValidatePaths(a, files) ==
    IF ResolvePath(a.license) \notin files
    THEN RuntimeError(MSG_LICENSE_FILE, ResolvePath(a.license))
    ELSE IF a.config # CONFIG_NONE /\ ResolvePath(a.config) \notin files
    THEN RuntimeError(MSG_CONFIG_FILE, ResolvePath(a.config))
    ELSE NoExc

Validate ==
    /\ pc = "validate"
    /\ phases' = Append(phases, "Validate")
    /\ LET e == ValidatePaths(args, fs) IN
       IF e # NoExc
       THEN /\ Raise(e)
            /\ pc' = "main_exit"
       ELSE /\ pc' = "prepare"
            /\ UNCHANGED <<exc, failed_at>>
    /\ UNCHANGED <<inputVars, pull_result, child, local_images, bootstrap_secret, image_name,
                   container_env, container, stop_calls, pull_attempts,
                   engine_pulls, logs, clock, waitVars, secret_bytes, api_key,
                   child_env, log_dumps, exit_code, stderr, exit_status,
                   port_open>>

\* main, lines 203-207
Prepare ==
    /\ pc = "prepare"
    /\ image_name' = args.image \o <<":">> \o get_docker_tag(args.version)
    /\ bootstrap_secret' = b64encode(urandom)
    /\ pc' = "ensure_image"
    /\ UNCHANGED <<inputVars, pull_result, child, local_images, container_env, container,
                   stop_calls, pull_attempts, engine_pulls, logs, clock,
                   waitVars, secret_bytes, api_key, child_env, log_dumps, exc,
                   exit_code, stderr, exit_status, port_open, phases,
                   failed_at>>

has_local_image(images, name) == name \in images

\* pull_image: client.api.pull(IMAGE, ...) looks the global IMAGE up first;
\* engine is 1 when the engine's pull was invoked
pull_image(can_serve) ==
    IF "IMAGE" \notin ModuleGlobals THEN [ok |-> FALSE, engine |-> 0]
    ELSE [ok |-> can_serve, engine |-> 1]

\* variant: a failed pull is never fatal
ensure_image_SwallowsPullError(images, name, ver, can_serve) ==
    LET is_release == ver \in {VERSION_LATEST, VERSION_RELEASE} IN
    IF ~is_release /\ has_local_image(images, name)
    THEN [attempts |-> 0, engine |-> 0, pull |-> "none", images |-> images,
          raised |-> FALSE]
    ELSE LET r == pull_image(can_serve) IN
         [attempts |-> 1, engine |-> r.engine,
          pull |-> IF r.ok THEN "ok" ELSE "failed",
          images |-> IF r.ok THEN images \cup {name} ELSE images,
          raised |-> FALSE]

\* variant: the local cache is used for every version
ensure_image_CacheForRelease(images, name, ver, can_serve) ==
    IF has_local_image(images, name)
    THEN [attempts |-> 0, engine |-> 0, pull |-> "none", images |-> images,
          raised |-> FALSE]
    ELSE LET r == pull_image(can_serve) IN
         IF r.ok
         THEN [attempts |-> 1, engine |-> r.engine, pull |-> "ok",
               images |-> images \cup {name}, raised |-> FALSE]
         ELSE [attempts |-> 1, engine |-> r.engine, pull |-> "failed",
               images |-> images, raised |-> TRUE]

ensure_image(images, name, ver, can_serve) ==
    LET is_release == ver \in {VERSION_LATEST, VERSION_RELEASE} IN
    IF ~is_release /\ has_local_image(images, name)
    THEN [attempts |-> 0, engine |-> 0, pull |-> "none", images |-> images,
          raised |-> FALSE]
    ELSE LET r == pull_image(can_serve) IN
         IF r.ok
         THEN [attempts |-> 1, engine |-> r.engine, pull |-> "ok",
               images |-> images \cup {name}, raised |-> FALSE]
         ELSE [attempts |-> 1, engine |-> r.engine, pull |-> "failed",
               images |-> images, raised |-> ~has_local_image(images, name)]

\* main, line 209
EnsureImage ==
    /\ pc = "ensure_image"
    /\ phases' = Append(phases, "AcquireImage")
    /\ LET r == ensure_image(local_images, image_name, args.version, registry_up) IN
         /\ pull_attempts' = pull_attempts + r.attempts
         /\ engine_pulls' = engine_pulls + r.engine
         /\ pull_result' = r.pull
         /\ local_images' = r.images
         /\ IF r.raised
            THEN /\ Raise(RuntimeError(MSG_PULL, <<>>))
                 /\ pc' = "main_exit"
            ELSE /\ pc' = "launch"
                 /\ UNCHANGED <<exc, failed_at>>
    /\ UNCHANGED <<inputVars, child, bootstrap_secret, image_name, container_env,
                   container, stop_calls, logs, clock, waitVars, secret_bytes,
                   api_key, child_env, log_dumps, exit_code, stderr,
                   exit_status, port_open>>

(***************************************************************************)
(* main, lines 211-254: environment and container launch.                  *)
(***************************************************************************)
\* main, lines 236-240
RECURSIVE ApplyEnvVars(_, _)
ApplyEnvVars(env, env_vars) ==
    IF Len(env_vars) = 0 THEN env
    ELSE LET env_var == env_vars[1] IN
         IF "=" \in Range(env_var)
         THEN LET kv == Split1(env_var, "=") IN
              ApplyEnvVars(DictSet(env, kv[1], kv[2]), Tail(env_vars))
         ELSE ApplyEnvVars(env, Tail(env_vars))

\* variant: the built-in settings are written after the user's
BuildContainerEnv_BuiltinsLast(secret, env_vars) ==
    DictSet(DictSet(ApplyEnvVars(EmptyDict, env_vars), KEY_ENABLED, <<"true">>),
            KEY_SECRET, secret)

\* main, lines 231-240
BuildContainerEnv(secret, env_vars) ==
    ApplyEnvVars(DictSet(DictSet(EmptyDict, KEY_ENABLED, <<"true">>),
                         KEY_SECRET, secret),
                 env_vars)

\* the engine starts the container
Launch ==
    /\ pc = "launch"
    /\ phases' = Append(phases, "Launch")
    /\ container_env' = BuildContainerEnv(bootstrap_secret, args.env_vars)
    /\ container' = "running"
    /\ pc' = "probe_net"
    /\ UNCHANGED <<inputVars, pull_result, child, local_images, bootstrap_secret, image_name,
                   stop_calls, pull_attempts, engine_pulls, logs, clock,
                   waitVars, secret_bytes, api_key, child_env, log_dumps, exc,
                   exit_code, stderr, exit_status, port_open, failed_at>>

\* client.containers.run raises (the host port is taken, the engine is down):
\* no container handle exists and the exception leaves main before the try
LaunchFails ==
    /\ pc = "launch"
    /\ phases' = Append(phases, "Launch")
    /\ container_env' = BuildContainerEnv(bootstrap_secret, args.env_vars)
    /\ Raise(OtherError("APIError"))
    /\ pc' = "main_exit"
    /\ UNCHANGED <<inputVars, pull_result, child, local_images, bootstrap_secret, image_name,
                   container, stop_calls, pull_attempts, engine_pulls, logs,
                   clock, waitVars, secret_bytes, api_key, child_env,
                   log_dumps, exit_code, stderr, exit_status, port_open>>

\* the running container writes one more line to its log; lines written after
\* the readiness wait has ended are read by no decision of the program and
\* are left out
ContainerEmit ==
    /\ container = "running"
    /\ pc \in {"probe_net", "wait_start", "wait_loop"}
    /\ Len(logs) < log_limit
    /\ \E line \in LogLines : logs' = Append(logs, line)
    /\ UNCHANGED <<inputVars, pull_result, child, local_images, pc, bootstrap_secret, image_name,
                   container_env, container, stop_calls, pull_attempts,
                   engine_pulls, clock, waitVars, secret_bytes, api_key,
                   child_env, log_dumps, exc, exit_code, stderr, exit_status,
                   port_open, phases, failed_at>>

(***************************************************************************)
(* main, lines 256-269: the two readiness probes.                          *)
(***************************************************************************)
ConnectOutcomes == {"connected", "refused", "timeout"}

\* is_port_open: one socket.create_connection attempt
is_port_open(outcome) == outcome = "connected"

\* seconds the single attempt takes: only a timeout waits the timeout out
ConnectSeconds(outcome) == IF outcome = "timeout" THEN NET_TIMEOUT ELSE 0

\* variant: a closed port is reported but not raised
ProbeNetwork_NoRaise ==
    /\ pc = "probe_net"
    /\ phases' = Append(phases, "ProbeNetwork")
    /\ \E outcome \in ConnectOutcomes :
         /\ clock' = clock + ConnectSeconds(outcome)
         /\ port_open' = IF is_port_open(outcome) THEN "True" ELSE "False"
         /\ log_dumps' = IF is_port_open(outcome) THEN log_dumps ELSE log_dumps + 1
         /\ pc' = "wait_start"
    /\ UNCHANGED <<inputVars, pull_result, child, local_images,
                   bootstrap_secret, image_name, container_env, container,
                   stop_calls, pull_attempts, engine_pulls, logs, waitVars,
                   secret_bytes, api_key, child_env, exit_code, stderr,
                   exit_status, exc, failed_at>>

\* main, lines 257-261
ProbeNetwork ==
    /\ pc = "probe_net"
    /\ phases' = Append(phases, "ProbeNetwork")
    /\ \E outcome \in ConnectOutcomes :
         /\ clock' = clock + ConnectSeconds(outcome)
         /\ IF is_port_open(outcome)
            THEN /\ port_open' = "True"
                 /\ pc' = "wait_start"
                 /\ UNCHANGED <<log_dumps, exc, failed_at>>
            ELSE /\ port_open' = "False"
                 /\ log_dumps' = log_dumps + 1
                 /\ Raise(RuntimeError(MSG_NET_TIMEOUT, <<>>))
                 /\ pc' = "finally"
    /\ UNCHANGED <<inputVars, pull_result, child, local_images, bootstrap_secret, image_name,
                   container_env, container, stop_calls, pull_attempts,
                   engine_pulls, logs, waitVars, secret_bytes, api_key,
                   child_env, exit_code, stderr, exit_status>>

\* wait_for_http_server, lines 335-336
WaitStart ==
    /\ pc = "wait_start"
    /\ phases' = Append(phases, "ProbeLog")
    /\ deadline' = clock + wait_timeout
    /\ version' = "None"
    /\ pc' = "wait_loop"
    /\ UNCHANGED <<inputVars, pull_result, child, local_images, bootstrap_secret, image_name,
                   container_env, container, stop_calls, pull_attempts,
                   engine_pulls, logs, clock, polls, sleeps, final_logs,
                   wait_result, secret_bytes, api_key, child_env, log_dumps,
                   exc, exit_code, stderr, exit_status, port_open, failed_at>>

\* variant: the license phrase is not looked for
PollOutcome_NoLicenseCheck(text) ==
    IF InLogs(PHRASE_HTTP, text) /\ InLogs(PHRASE_PORT, text) THEN "ready"
    ELSE "sleep"

\* variant: the readiness test of line 353 is left out
PollOutcome_NoReadyCheck(text) ==
    IF InLogs(PHRASE_LICENSE, text) THEN "license"
    ELSE "sleep"

\* variant: the readiness test comes before the license test
PollOutcome_ReadyFirst(text) ==
    IF InLogs(PHRASE_HTTP, text) /\ InLogs(PHRASE_PORT, text) THEN "ready"
    ELSE IF InLogs(PHRASE_LICENSE, text) THEN "license"
    ELSE "sleep"

\* wait_for_http_server, lines 345-355: what one poll does with the text read
PollOutcome(text) ==
    IF InLogs(PHRASE_LICENSE, text) THEN "license"
    ELSE IF InLogs(PHRASE_HTTP, text) /\ InLogs(PHRASE_PORT, text) THEN "ready"
    ELSE "sleep"

\* wait_for_http_server, lines 340-343
NextVersion(seen, text) == IF seen = "None" THEN extract_server_version(text) ELSE seen

\* one iteration of the loop at line 338 whose poll finds the license failure:
\* the logs are printed, the container is stopped and the error is raised
WaitPollLicense ==
    /\ pc = "wait_loop"
    /\ phases' = phases
    /\ clock < deadline
    /\ PollOutcome(logs) = "license"
    /\ polls' = polls + 1
    /\ version' = NextVersion(version, logs)
    /\ final_logs' = logs
    /\ log_dumps' = log_dumps + 1
    /\ stop_calls' = stop_calls + 1
    /\ container' = "stopped"
    /\ wait_result' = "LicenseError"
    /\ Raise(RuntimeError(MSG_LICENSE, <<>>))
    /\ pc' = "finally"
    /\ UNCHANGED <<inputVars, pull_result, child, local_images, bootstrap_secret, image_name,
                   container_env, pull_attempts, engine_pulls, logs, clock,
                   deadline, sleeps, secret_bytes, api_key, child_env,
                   exit_code, stderr, exit_status, port_open>>

\* one iteration whose poll finds the server started: return True
WaitPollReady ==
    /\ pc = "wait_loop"
    /\ clock < deadline
    /\ PollOutcome(logs) = "ready"
    /\ polls' = polls + 1
    /\ version' = NextVersion(version, logs)
    /\ final_logs' = logs
    /\ wait_result' = "True"
    /\ pc' = "bootstrap"
    /\ UNCHANGED <<inputVars, pull_result, child, local_images, bootstrap_secret, image_name,
                   container_env, container, stop_calls, pull_attempts,
                   engine_pulls, logs, clock, deadline, sleeps, secret_bytes,
                   api_key, child_env, log_dumps, exc, exit_code, stderr,
                   exit_status, port_open, phases, failed_at>>

\* variant: the deadline is computed anew in every iteration
WaitPollSleep_DeadlineMoves ==
    /\ pc = "wait_loop"
    /\ clock < deadline
    /\ PollOutcome(logs) = "sleep"
    /\ polls' = polls + 1
    /\ version' = NextVersion(version, logs)
    /\ sleeps' = sleeps + 1
    /\ clock' = clock + POLL_INTERVAL
    /\ deadline' = clock' + wait_timeout
    /\ UNCHANGED <<inputVars, pull_result, child, local_images, pc, bootstrap_secret, image_name,
                   container_env, container, stop_calls, pull_attempts,
                   engine_pulls, logs, final_logs, wait_result,
                   secret_bytes, api_key, child_env, log_dumps, exc,
                   exit_code, stderr, exit_status, port_open, phases,
                   failed_at>>

\* one iteration whose poll finds neither: time.sleep(poll_interval)
WaitPollSleep ==
    /\ pc = "wait_loop"
    /\ clock < deadline
    /\ PollOutcome(logs) = "sleep"
    /\ polls' = polls + 1
    /\ version' = NextVersion(version, logs)
    /\ sleeps' = sleeps + 1
    /\ clock' = clock + POLL_INTERVAL
    /\ UNCHANGED <<inputVars, pull_result, child, local_images, pc, bootstrap_secret, image_name,
                   container_env, container, stop_calls, pull_attempts,
                   engine_pulls, logs, deadline, final_logs, wait_result,
                   secret_bytes, api_key, child_env, log_dumps, exc,
                   exit_code, stderr, exit_status, port_open, phases,
                   failed_at>>

\* variant: main ignores the False result of wait_for_http_server
WaitTimeout_ResultIgnored ==
    /\ pc = "wait_loop"
    /\ ~(clock < deadline)
    /\ wait_result' = "False"
    /\ pc' = "bootstrap"
    /\ UNCHANGED <<inputVars, pull_result, child, local_images, bootstrap_secret, image_name,
                   container_env, container, stop_calls, pull_attempts,
                   engine_pulls, logs, clock, deadline, version, polls,
                   sleeps, final_logs, secret_bytes, api_key, child_env,
                   exit_code, stderr, exit_status, port_open, log_dumps, exc,
                   phases, failed_at>>

\* the loop condition fails: return False (line 356); main, lines 264-269,
\* prints the logs and raises
WaitTimeout ==
    /\ pc = "wait_loop"
    /\ phases' = phases
    /\ ~(clock < deadline)
    /\ wait_result' = "False"
    /\ log_dumps' = log_dumps + 1
    /\ Raise(RuntimeError(MSG_HTTP_TIMEOUT, <<>>))
    /\ pc' = "finally"
    /\ UNCHANGED <<inputVars, pull_result, child, local_images, bootstrap_secret, image_name,
                   container_env, container, stop_calls, pull_attempts,
                   engine_pulls, logs, clock, deadline, version, polls,
                   sleeps, final_logs, secret_bytes, api_key, child_env,
                   exit_code, stderr, exit_status, port_open>>

(***************************************************************************)
(* get_api_key, lines 359-396.                                             *)
(***************************************************************************)
\* what client.bootstrap() does: raise, or return a response
RESPONSE_RAISES == [raises |-> TRUE, truthy |-> FALSE, has_key |-> FALSE, key |-> ""]
RESPONSE_NONE == [raises |-> FALSE, truthy |-> FALSE, has_key |-> FALSE, key |-> ""]
RESPONSE_NO_FIELD == [raises |-> FALSE, truthy |-> TRUE, has_key |-> FALSE, key |-> ""]
RESPONSE_EMPTY_KEY == [raises |-> FALSE, truthy |-> TRUE, has_key |-> TRUE, key |-> ""]
RESPONSE_KEY == [raises |-> FALSE, truthy |-> TRUE, has_key |-> TRUE, key |-> "api-key-1"]
BootstrapResponses ==
    {RESPONSE_RAISES, RESPONSE_NONE, RESPONSE_NO_FIELD, RESPONSE_EMPTY_KEY, RESPONSE_KEY}

\* variant: the emptiness test of line 384 is left out
get_api_key_AcceptsEmptyKey(response) ==
    IF response.raises THEN [ok |-> FALSE, key |-> "None", dumps |-> 1]
    ELSE IF response.truthy /\ response.has_key
    THEN [ok |-> TRUE, key |-> response.key, dumps |-> 0]
    ELSE [ok |-> FALSE, key |-> "None", dumps |-> 2]

\* the result of get_api_key for a response: the key returned or the error
\* raised, and the number of log dumps printed on the way (a RuntimeError
\* raised inside the try is caught by the except clause, which dumps again)
get_api_key(response) ==
    IF response.raises THEN [ok |-> FALSE, key |-> "None", dumps |-> 1]
    ELSE IF response.truthy /\ response.has_key
    THEN IF response.key = "" THEN [ok |-> FALSE, key |-> "None", dumps |-> 2]
         ELSE [ok |-> TRUE, key |-> response.key, dumps |-> 0]
    ELSE [ok |-> FALSE, key |-> "None", dumps |-> 2]

\* main, line 271
Bootstrap ==
    /\ pc = "bootstrap"
    /\ phases' = Append(phases, "Bootstrap")
    /\ secret_bytes' = b64decode(bootstrap_secret)
    /\ \E response \in BootstrapResponses :
         LET r == get_api_key(response) IN
         /\ log_dumps' = log_dumps + r.dumps
         /\ api_key' = r.key
         /\ IF r.ok
            THEN /\ pc' = "run_command"
                 /\ UNCHANGED <<exc, failed_at>>
            ELSE /\ Raise(RuntimeError(MSG_BOOTSTRAP, <<>>))
                 /\ pc' = "finally"
    /\ UNCHANGED <<inputVars, pull_result, child, local_images, bootstrap_secret, image_name,
                   container_env, container, stop_calls, pull_attempts,
                   engine_pulls, logs, clock, waitVars, child_env, exit_code,
                   stderr, exit_status, port_open>>

(***************************************************************************)
(* main, lines 273-289: the user command and the finally block.            *)
(***************************************************************************)
KEY_API_KEY == <<"CONNECT_API_KEY">>
KEY_SERVER == <<"CONNECT_SERVER">>
\* --port default; server_url = f"http://localhost:{args.port}"
DEFAULT_PORT == 3939
ServerUrl(port) == <<"http://localhost:", port>>

\* what subprocess.run(args.command, check=True, env=env) does
ChildOutcomes ==
    {[kind |-> "exit", code |-> 0], [kind |-> "exit", code |-> 3],
     [kind |-> "exit", code |-> 255], [kind |-> "signal", code |-> 9],
     [kind |-> "oserror", code |-> 0]}

\* Popen.returncode
ReturnCode(outcome) ==
    IF outcome.kind = "signal" THEN 0 - outcome.code ELSE outcome.code

\* main, lines 274-275: no command was given
RunNoCommand ==
    /\ pc = "run_command"
    /\ args.command = COMMAND_NONE
    /\ exit_code' = 0
    /\ pc' = "finally"
    /\ UNCHANGED <<inputVars, pull_result, child, local_images, bootstrap_secret, image_name,
                   container_env, container, stop_calls, pull_attempts,
                   engine_pulls, logs, clock, waitVars, secret_bytes, api_key,
                   child_env, log_dumps, exc, stderr, exit_status, port_open,
                   phases, failed_at>>

\* main, lines 276-285: the command runs to an end
RunCommand ==
    /\ pc = "run_command"
    /\ args.command # COMMAND_NONE
    /\ phases' = Append(phases, "RunCommand")
    /\ child_env' = DictSet(DictSet(EmptyDict, KEY_API_KEY, api_key),
                            KEY_SERVER, ServerUrl(DEFAULT_PORT))
    /\ \E outcome \in {o \in ChildOutcomes : o.kind # "oserror"} :
         /\ child' = outcome
         /\ exit_code' = ReturnCode(outcome)
    /\ pc' = "finally"
    /\ UNCHANGED <<inputVars, pull_result, local_images, bootstrap_secret, image_name,
                   container_env, container, stop_calls, pull_attempts,
                   engine_pulls, logs, clock, waitVars, secret_bytes, api_key,
                   log_dumps, exc, stderr, exit_status, port_open, failed_at>>

\* main, line 282: the command cannot be started; subprocess.run raises
\* FileNotFoundError or PermissionError, which line 284 does not catch
RunCommandCannotStart ==
    /\ pc = "run_command"
    /\ args.command # COMMAND_NONE
    /\ phases' = Append(phases, "RunCommand")
    /\ child_env' = DictSet(DictSet(EmptyDict, KEY_API_KEY, api_key),
                            KEY_SERVER, ServerUrl(DEFAULT_PORT))
    /\ child' = [kind |-> "oserror", code |-> 0]
    /\ exit_code' = 0
    /\ Raise(OtherError("OSError"))
    /\ pc' = "finally"
    /\ UNCHANGED <<inputVars, pull_result, local_images, bootstrap_secret, image_name,
                   container_env, container, stop_calls, pull_attempts,
                   engine_pulls, logs, clock, waitVars, secret_bytes, api_key,
                   log_dumps, stderr, exit_status, port_open>>

\* variant: the container is stopped on the success path only
Teardown_OnlyOnSuccess ==
    /\ pc = "finally"
    /\ phases' = Append(phases, "Teardown")
    /\ stop_calls' = IF exc = NoExc THEN stop_calls + 1 ELSE stop_calls
    /\ container' = IF exc = NoExc THEN "stopped" ELSE container
    /\ pc' = "main_exit"
    /\ UNCHANGED <<inputVars, pull_result, child, local_images,
                   bootstrap_secret, image_name, container_env, pull_attempts,
                   engine_pulls, logs, clock, waitVars, secret_bytes, api_key,
                   child_env, log_dumps, exc, exit_code, stderr, exit_status,
                   port_open, failed_at>>

\* main, lines 288-289: finally: container.stop()
Teardown ==
    /\ pc = "finally"
    /\ phases' = Append(phases, "Teardown")
    /\ stop_calls' = stop_calls + 1
    /\ container' = "stopped"
    /\ pc' = "main_exit"
    /\ UNCHANGED <<inputVars, pull_result, child, local_images, bootstrap_secret, image_name,
                   container_env, pull_attempts, engine_pulls, logs, clock,
                   waitVars, secret_bytes, api_key, child_env, log_dumps, exc,
                   exit_code, stderr, exit_status, port_open, failed_at>>

(***************************************************************************)
(* __main__, lines 399-404.                                                *)
(***************************************************************************)
\* the status the operating system records for sys.exit(code)
SysExit(code) == code % 256

\* variant: the value main() returns is not passed to sys.exit
ExitStatus_IgnoresReturn(e, code) ==
    IF e.type = "none" THEN 0 ELSE 1

\* exit status of the process: sys.exit(main()), sys.exit(1) for a
\* RuntimeError, and the interpreter's status 1 for any other exception
ExitStatus(e, code) ==
    IF e.type = "none" THEN SysExit(code) ELSE 1

ProcessExit ==
    /\ pc = "main_exit"
    /\ exit_status' = ExitStatus(exc, exit_code)
    /\ stderr' = IF exc.type = "RuntimeError" THEN exc ELSE NoExc
    /\ pc' = "exited"
    /\ UNCHANGED <<inputVars, pull_result, child, local_images, bootstrap_secret, image_name,
                   container_env, container, stop_calls, pull_attempts,
                   engine_pulls, logs, clock, waitVars, secret_bytes, api_key,
                   child_env, log_dumps, exc, exit_code, port_open, phases,
                   failed_at>>

Next ==
    \/ Validate
    \/ Prepare
    \/ EnsureImage
    \/ Launch
    \/ LaunchFails
    \/ ContainerEmit
    \/ ProbeNetwork
    \/ WaitStart
    \/ WaitPollLicense
    \/ WaitPollReady
    \/ WaitPollSleep
    \/ WaitTimeout
    \/ Bootstrap
    \/ RunNoCommand
    \/ RunCommand
    \/ RunCommandCannotStart
    \/ Teardown
    \/ ProcessExit

Spec == Init /\ [][Next]_vars

\* the same program, started on sessions that vary the -e options and the
\* secret bytes instead of the log text
InitEnv ==
    InitWith(EnvironmentArgs, [1..NumSecretBytes -> ByteChoices], 1, {TRUE},
             {HTTP_TIMEOUT})
SpecEnv == InitEnv /\ [][Next]_vars

(***************************************************************************)
(* Sessions over many --version strings, with the registry up or down, for *)
(* the tag mapping and the image acquisition.                              *)
(***************************************************************************)
TagYears ==
    {<<"2","0","2","1">>, <<"2","0","2","2">>, <<"2","0","2","3">>,
     <<"2","0","2","4">>}
TagMonths ==
    {<<"0","1">>, <<"0","6">>, <<"0","7">>, <<"0","8">>, <<"0","9">>, <<"9">>,
     <<"1","0">>, <<"1","2">>}
TagSuffixes == {<<>>, <<".","0">>}
NumericVersions ==
    {y \o <<".">> \o m \o s : y \in TagYears, m \in TagMonths, s \in TagSuffixes}
OtherVersions ==
    {VERSION_RELEASE, VERSION_LATEST, <<>>,
     <<"j","a","m","m","y">>,
     <<"c","u","s","t","o","m","-","t","a","g">>,
     <<"l","a","t","e","s","t",".","1">>,
     <<"2","0","2","4">>,
     <<"v","2","0","2","4",".","0","1",".","0">>,
     <<"2","0","2","4",".","x">>,
     <<"x",".","0","7",".","0">>,
     <<"2","0","2","3",".",".","7">>,
     <<".","2","0","2","3",".","0","7">>,
     <<"2","0","2","3","-","0","7">>,
     <<"+","2","0","2","3",".","0","7">>,
     <<"-","1",".","5">>}
TagVersions == NumericVersions \cup OtherVersions
TagArgs ==
    {ArgsOf(LICENSE_DEFAULT, CONFIG_NONE, ver, <<>>, cmd) :
        ver \in TagVersions, cmd \in {COMMAND_NONE, COMMAND_SOME}}
InitTag ==
    InitWith(TagArgs, {[i \in 1..NumSecretBytes |-> 77]}, 1, BOOLEAN,
             {HTTP_TIMEOUT})
SpecTag == InitTag /\ [][Next]_vars

(***************************************************************************)
(* Sessions over several values of wait_for_http_server's timeout, with    *)
(* the process scheduled fairly: a step that can be taken is taken.        *)
(***************************************************************************)
\* below zero, zero, between two polls, and a whole number of polls
WaitTimeouts == {0 - POLL_INTERVAL, 0, POLL_INTERVAL + 1, 4 * POLL_INTERVAL}
WaitArgs ==
    {ArgsOf(LICENSE_DEFAULT, CONFIG_NONE, VERSION_PINNED, <<>>, cmd) :
        cmd \in {COMMAND_NONE, COMMAND_SOME}}
InitWait ==
    InitWith(WaitArgs, {[i \in 1..NumSecretBytes |-> 77]}, MaxLogLen, {TRUE},
             WaitTimeouts)
SpecWait == InitWait /\ [][Next]_vars /\ WF_vars(Next)

(***************************************************************************)
(* Properties.                                                             *)
(***************************************************************************)
MainLeft == pc \in {"main_exit", "exited"}
Created == container # "none"
Entered(phase) == phase \in Range(phases)

\* C1: once the container was created, container.stop() has been called by
\* the time main() is left, whichever way main() is left.
C1_StoppedBeforeExit ==
    (MainLeft /\ Created) => (stop_calls >= 1 /\ container = "stopped")

\* a session left main() through an exception that is no RuntimeError, with
\* the container created and stopped
C1_Witness ==
    /\ pc = "exited"
    /\ exc.type = "OSError"
    /\ Created
    /\ stop_calls >= 1

\* C2: once the container was created, container.stop() is called exactly
\* once over the whole session.
C2_StoppedExactlyOnce ==
    (pc = "exited" /\ Created) => stop_calls = 1

\* C3: a missing license file, or a missing config file that was asked for,
\* ends the session with status 1 and an error naming the resolved path; no
\* pull is attempted and no container is created or stopped.
LicenseMissing == ResolvePath(args.license) \notin fs
ConfigMissing == args.config # CONFIG_NONE /\ ResolvePath(args.config) \notin fs
C3_ValidationFailure ==
    (LicenseMissing \/ ConfigMissing) =>
        /\ pull_attempts = 0
        /\ engine_pulls = 0
        /\ container = "none"
        /\ stop_calls = 0
        /\ pc \in {"validate", "main_exit", "exited"}
        /\ pc = "exited" =>
             /\ exit_status = 1
             /\ stderr.type = "RuntimeError"
             /\ stderr.path = IF LicenseMissing THEN ResolvePath(args.license)
                              ELSE ResolvePath(args.config)
             /\ stderr.msg = IF LicenseMissing THEN MSG_LICENSE_FILE
                             ELSE MSG_CONFIG_FILE

\* the license exists, the config file asked for does not, the process ended
C3_Witness ==
    /\ pc = "exited"
    /\ ~LicenseMissing
    /\ ConfigMissing
    /\ args.license = LICENSE_HOME
    /\ exit_status = 1

\* C4: the phases are entered in the order Validate, AcquireImage, Launch,
\* ProbeNetwork, ProbeLog, Bootstrap, RunCommand, Teardown, none skipped but
\* RunCommand before Teardown; the log probe follows a successful TCP probe,
\* the bootstrap follows a log probe that returned True, the user command
\* follows a returned API key, and after a failure only Teardown is entered.
PhaseOrder ==
    <<"Validate", "AcquireImage", "Launch", "ProbeNetwork", "ProbeLog",
      "Bootstrap", "RunCommand", "Teardown">>
C4_PhaseOrder ==
    /\ \A i \in 1..Len(phases) :
         \/ phases[i] = PhaseOrder[i] /\ phases[i] # "Teardown"
         \/ phases[i] = "Teardown" /\ i = Len(phases) /\ i > 3
    /\ Entered("ProbeLog") => port_open = "True"
    /\ Entered("Bootstrap") => wait_result = "True"
    /\ Entered("RunCommand") => api_key \notin {"None", ""}
    /\ failed_at > 0 =>
         \A i \in (failed_at + 1)..Len(phases) : phases[i] = "Teardown"

\* a session that went through all eight phases
C4_Witness == pc = "exited" /\ phases = PhaseOrder

\* C5: a poll of wait_for_http_server that reads the license-failure phrase
\* ends the wait on that poll, without a sleep, by raising the license
\* error, which differs from the timeout result.
C5_LicenseEndsWait ==
    [][(pc = "wait_loop" /\ polls' = polls + 1 /\ InLogs(PHRASE_LICENSE, logs)) =>
            /\ wait_result' = "LicenseError"
            /\ wait_result' # "False"
            /\ exc' = RuntimeError(MSG_LICENSE, <<>>)
            /\ exc'.msg # MSG_HTTP_TIMEOUT
            /\ sleeps' = sleeps
            /\ clock' = clock
            /\ pc' = "finally"
            /\ final_logs' = logs]_vars

\* the license failure was read on a later poll, with time left on the clock
C5_Witness ==
    /\ wait_result = "LicenseError"
    /\ polls >= 2
    /\ clock + POLL_INTERVAL < deadline
    /\ InLogs(PHRASE_LICENSE, final_logs)

\* C6: logs with an HTTP-start line for another port and none for port 3939
\* never make wait_for_http_server return True.
HttpStartFor3939(text) == LINE_HTTP_3939 \in Range(text)
HttpStartForOtherPort(text) == LINE_HTTP_8080 \in Range(text)
C6_OtherPortNotReady ==
    ~(/\ wait_result = "True"
      /\ HttpStartForOtherPort(final_logs)
      /\ ~HttpStartFor3939(final_logs))

\* C7: the secret in the environment the container was launched with and the
\* secret given to the bootstrap exchange decode to the same bytes.
C7_SameSecret ==
    Entered("Bootstrap") => b64decode(container_env[KEY_SECRET]) = secret_bytes

\* the round trip itself: the exchange is given the bytes that were drawn
C7_RoundTrip ==
    Entered("Bootstrap") => secret_bytes = urandom

\* C8: the exit status is 0 after a successful session without a command,
\* the command's own exit code when a command ran to an exit, and 1 after a
\* validation, acquisition, startup-timeout, license or bootstrap failure.
KeyReturned == Entered("Bootstrap") /\ api_key \notin {"None", ""}
C8_ExitStatus ==
    pc = "exited" =>
        /\ (KeyReturned /\ args.command = COMMAND_NONE) => exit_status = 0
        /\ child.kind = "exit" => exit_status = child.code
        /\ (LicenseMissing \/ ConfigMissing) => exit_status = 1
        /\ (Entered("AcquireImage") /\ ~Entered("Launch")) => exit_status = 1
        /\ port_open = "False" => exit_status = 1
        /\ wait_result \in {"False", "LicenseError"} => exit_status = 1
        /\ (Entered("Bootstrap") /\ ~KeyReturned) => exit_status = 1

\* the command ran and exited with 255, and so did the process
C8_Witness ==
    /\ pc = "exited"
    /\ child = [kind |-> "exit", code |-> 255]
    /\ exit_status = 255

\* C9: when the pull fails, ensure_image made one pull attempt; with a local
\* copy it returns and the session goes on, without one it raises the
\* acquisition error and no container is ever created.
AcquisitionError == RuntimeError(MSG_PULL, <<>>)
C9_FailedPull ==
    pull_result = "failed" =>
        /\ pull_attempts = 1
        /\ IF has_local_image(local_images, image_name)
           THEN exc # AcquisitionError /\ pc # "ensure_image"
           ELSE /\ exc = AcquisitionError
                /\ container = "none"
                /\ ~Entered("Launch")
                /\ MainLeft

\* the pull failed, the cached image was used and the container runs
C9_Witness ==
    /\ pull_result = "failed"
    /\ has_local_image(local_images, image_name)
    /\ container = "running"

\* C10: a pinned version with a local copy is not pulled; 'latest' and
\* 'release' are always pulled, local copy or not; a pinned version without
\* a local copy is pulled.
IsKeyword(ver) == ver \in {VERSION_LATEST, VERSION_RELEASE}
WasCached == has_local_image(local_images, image_name) /\ pull_result # "ok"
C10_PullDecision ==
    Entered("AcquireImage") =>
        pull_attempts = IF ~IsKeyword(args.version) /\ WasCached THEN 0 ELSE 1

\* 'release' was pulled although a local copy exists
C10_Witness ==
    /\ Entered("AcquireImage")
    /\ args.version = VERSION_RELEASE
    /\ WasCached
    /\ pull_attempts = 1

\* C11: when a pull is attempted and the registry can serve the image, the
\* engine's pull is invoked and image acquisition ends without the
\* acquisition error, even with no local copy beforehand.
C11_PullReachesEngine ==
    (Entered("AcquireImage") /\ pull_attempts >= 1 /\ registry_up) =>
        /\ engine_pulls >= 1
        /\ pull_result = "ok"
        /\ exc # AcquisitionError

\* C12: get_api_key returns only a non-empty key taken from the bootstrap
\* response; when it fails instead, the container logs were dumped, the
\* bootstrap error is raised, no user command runs and the container is
\* stopped by the time main() is left.
BootstrapError == RuntimeError(MSG_BOOTSTRAP, <<>>)
C12_BootstrapOutcome ==
    Entered("Bootstrap") =>
        IF exc = BootstrapError \/ api_key = "None"
        THEN /\ exc = BootstrapError
             /\ api_key = "None"
             /\ log_dumps >= 1
             /\ ~Entered("RunCommand")
             /\ child = NoChild
             /\ pc \in {"finally", "main_exit", "exited"}
             /\ MainLeft => (stop_calls = 1 /\ container = "stopped")
        ELSE /\ api_key = RESPONSE_KEY.key
             /\ api_key # ""
             /\ log_dumps = 0

\* the bootstrap failed, the logs were dumped and the session ended with the
\* container stopped and no command run
C12_Witness ==
    /\ Entered("Bootstrap")
    /\ exc = BootstrapError
    /\ log_dumps = 2
    /\ pc = "exited"
    /\ stop_calls = 1
    /\ child = NoChild

\* C13: when the log-phase deadline passes and no poll has seen the license
\* phrase or the HTTP-started phrase for the expected port, the wait returns
\* False; main() then dumps the logs, raises the startup-timeout error, which
\* is not the license error, and the container is stopped when main() is
\* left.  The wait returns False in no other case.
LogWaitOver == Entered("ProbeLog") /\ pc \notin {"wait_start", "wait_loop"}
NoPollSawAPhrase == polls = sleeps
StartupTimeoutError == RuntimeError(MSG_HTTP_TIMEOUT, <<>>)
LicenseError == RuntimeError(MSG_LICENSE, <<>>)
C13_LogDeadline ==
    /\ (LogWaitOver /\ NoPollSawAPhrase) <=> wait_result = "False"
    /\ wait_result = "False" =>
          /\ ~(clock < deadline)
          /\ log_dumps = 1
          /\ exc = StartupTimeoutError
          /\ exc # LicenseError
          /\ ~Entered("Bootstrap")
          /\ MainLeft => (stop_calls = 1 /\ container = "stopped")

\* the deadline passed after polls that saw neither phrase, and the session
\* ended with the timeout error and the container stopped
C13_Witness ==
    /\ wait_result = "False"
    /\ polls = wait_timeout \div POLL_INTERVAL
    /\ Len(logs) = MaxLogLen
    /\ ~InLogs(PHRASE_LICENSE, logs)
    /\ ~HttpStartFor3939(logs)
    /\ exc = StartupTimeoutError
    /\ pc = "exited"
    /\ stop_calls = 1

\* C14: the tag put into the image name agrees with the reference mapping:
\* 'latest' and 'release' give 'jammy'; a version whose first two
\* dot-separated components parse as integers (year, month) gives
\* 'jammy-<version>' when (year, month) > (2023, 6), 'bionic-<version>' when
\* (2022, 9) <= (year, month) <= (2023, 6), and the version itself when
\* (year, month) < (2022, 9); computing the tag raises nothing.
Tagged == image_name # <<>>
Tag == SubSeq(image_name, Len(args.image) + 2, Len(image_name))
DotAt(text) == FirstIndex(text, ".")
YearText(text) == SubSeq(text, 1, DotAt(text) - 1)
AfterYear(text) == SubSeq(text, DotAt(text) + 1, Len(text))
MonthText(text) ==
    IF "." \in Range(AfterYear(text))
    THEN SubSeq(AfterYear(text), 1, DotAt(AfterYear(text)) - 1)
    ELSE AfterYear(text)
NumericPrefixed(text) ==
    /\ "." \in Range(text)
    /\ IntParses(YearText(text))
    /\ IntParses(MonthText(text))
YearMonth(text) == <<IntValue(YearText(text)), IntValue(MonthText(text))>>
PairLess(a, b) == a[1] < b[1] \/ (a[1] = b[1] /\ a[2] < b[2])
C14_TagMapping ==
    Tagged =>
        /\ pc = "ensure_image" => exc = NoExc
        /\ IsKeyword(args.version) => Tag = <<"jammy">>
        /\ (~IsKeyword(args.version) /\ NumericPrefixed(args.version)) =>
              LET ym == YearMonth(args.version) IN
              Tag = IF PairLess(<<2023, 6>>, ym) THEN <<"jammy-">> \o args.version
                    ELSE IF ~PairLess(ym, <<2022, 9>>) THEN <<"bionic-">> \o args.version
                    ELSE args.version

\* 2023.06 is the last bionic month
C14_Witness ==
    /\ Tagged
    /\ args.version = <<"2","0","2","3",".","0","6",".","0">>
    /\ Tag = <<"bionic-">> \o args.version
    /\ pc = "ensure_image"

\* C15: for every version string that has no dot, or whose first two
\* components do not both parse as integers, the tag is the version string
\* itself.
C15_IdentityElsewhere ==
    (Tagged /\ ~NumericPrefixed(args.version)) => Tag = args.version

\* C15 with the two keywords set aside: every other such version string is
\* its own tag.
C15_IdentityBesidesKeywords ==
    (Tagged /\ ~NumericPrefixed(args.version) /\ ~IsKeyword(args.version)) =>
        Tag = args.version

\* a dotted version whose month is not a number is passed through
C15_Witness ==
    /\ Tagged
    /\ args.version = <<"2","0","2","4",".","x">>
    /\ Tag = args.version
    /\ pc = "ensure_image"

\* C16: the environment the container is launched with holds the
\* bootstrap-enabled flag and the encoded bootstrap secret with the user's
\* KEY=VALUE overrides applied on top in order: a key named by an override
\* has the value of the last override naming it, a built-in key named by no
\* override keeps its built-in value, and there are no other keys.
IsOverride(env_var) == "=" \in Range(env_var)
OverrideKey(env_var) == SubSeq(env_var, 1, FirstIndex(env_var, "=") - 1)
OverrideValue(env_var) ==
    SubSeq(env_var, FirstIndex(env_var, "=") + 1, Len(env_var))
OverridesOf(key) ==
    {i \in 1..Len(args.env_vars) :
        IsOverride(args.env_vars[i]) /\ OverrideKey(args.env_vars[i]) = key}
LastOverride(key) ==
    CHOOSE i \in OverridesOf(key) : \A j \in OverridesOf(key) : j <= i
OverriddenKeys ==
    {OverrideKey(args.env_vars[i]) :
        i \in {j \in 1..Len(args.env_vars) : IsOverride(args.env_vars[j])}}
BuiltinValue(key) == IF key = KEY_ENABLED THEN <<"true">> ELSE bootstrap_secret
C16_ContainerEnv ==
    container_env # EmptyDict =>
        /\ DOMAIN container_env = {KEY_ENABLED, KEY_SECRET} \cup OverriddenKeys
        /\ \A key \in DOMAIN container_env :
              container_env[key] =
                 IF OverridesOf(key) # {}
                 THEN OverrideValue(args.env_vars[LastOverride(key)])
                 ELSE BuiltinValue(key)

\* FOO is overridden twice and the secret key not at all
C16_Witness ==
    /\ Created
    /\ args.env_vars = <<ENV_FOO, ENV_FOO2>>
    /\ container_env[<<"FOO">>] = <<"b", "=", "c">>
    /\ container_env[KEY_SECRET] = bootstrap_secret
    /\ container_env[KEY_ENABLED] = <<"true">>

\* C17: when the child command cannot be started or exits non-zero, main()
\* returns an exit code instead of letting an exception escape, that code is
\* the session's exit status, and the container has been stopped.
ChildFailed ==
    \/ child.kind = "oserror"
    \/ child.kind = "exit" /\ child.code # 0
C17_ChildFailurePropagated ==
    (MainLeft /\ ChildFailed) =>
        /\ exc = NoExc
        /\ exit_code # 0
        /\ stop_calls >= 1
        /\ container = "stopped"
        /\ pc = "exited" => (exit_status = SysExit(exit_code) /\ stderr = NoExc)

\* C18: when the logs read by the first poll hold the HTTP-started line for
\* port 3939 and no license-failure phrase, the wait returns True on that
\* poll: no sleep, no stop of the container, and no poll after it.
C18_ReadyOnFirstPoll ==
    [][/\ (/\ pc = "wait_loop"
           /\ polls = 0
           /\ polls' = 1
           /\ HttpStartFor3939(logs)
           /\ ~InLogs(PHRASE_LICENSE, logs)) =>
              /\ wait_result' = "True"
              /\ final_logs' = logs
              /\ sleeps' = 0
              /\ clock' = clock
              /\ stop_calls' = 0
              /\ container' = "running"
              /\ exc' = NoExc
              /\ pc' = "bootstrap"
       /\ wait_result = "True" => (polls' = polls /\ sleeps' = sleeps)]_vars

\* the first poll found the server started
C18_Witness ==
    /\ wait_result = "True"
    /\ polls = 1
    /\ sleeps = 0
    /\ HttpStartFor3939(final_logs)
    /\ ~InLogs(PHRASE_LICENSE, final_logs)
    /\ stop_calls = 0
    /\ container = "running"

\* C19: in the network probe a refused or timed-out connection means 'not
\* yet ready': the startup-timeout error of that phase is raised only once
\* the 60 seconds of the phase have passed, never at the first refusal.
NetTimeoutError == RuntimeError(MSG_NET_TIMEOUT, <<>>)
C19_NoEarlyNetTimeout ==
    exc = NetTimeoutError => clock >= NET_TIMEOUT

\* C20: the wait is bounded by a deadline captured once, start + timeout, and
\* always terminates: whatever the container logs, the loop ends with True,
\* False or the license error; no poll starts once the clock has reached the
\* deadline; with a timeout of zero or less no poll happens and the result
\* is False.
WaitEnded == wait_result \in {"True", "False", "LicenseError"}
WaitStartedAt == clock - sleeps * POLL_INTERVAL
C20_WaitTerminates ==
    /\ [](Entered("ProbeLog") => <>WaitEnded)
    /\ [](pc = "wait_loop" => deadline = WaitStartedAt + wait_timeout)
    /\ [][polls' # polls => (pc = "wait_loop" /\ clock < deadline)]_vars
    /\ []((WaitEnded /\ wait_timeout <= 0) => (polls = 0 /\ wait_result = "False"))

\* the wait ran out after polling until the deadline
C20_Witness ==
    /\ wait_result = "False"
    /\ wait_timeout = 4 * POLL_INTERVAL
    /\ polls = 4
    /\ Len(logs) = MaxLogLen
    /\ clock >= deadline

\* with a timeout of zero the wait ends at once with False
C20_WitnessNoPoll ==
    /\ wait_result = "False"
    /\ wait_timeout = 0
    /\ polls = 0

\* C21: the license failure takes precedence over readiness: a poll whose
\* logs hold both the license-failure phrase and the HTTP-started line for
\* port 3939 raises the license error; the wait does not return True in that
\* session, and neither the bootstrap nor the user command is reached.
BothInLogs(text) == InLogs(PHRASE_LICENSE, text) /\ HttpStartFor3939(text)
C21_LicenseBeforeReady ==
    [][/\ (pc = "wait_loop" /\ polls' = polls + 1 /\ BothInLogs(logs)) =>
              /\ wait_result' = "LicenseError"
              /\ exc' = LicenseError
              /\ final_logs' = logs
              /\ pc' = "finally"
       /\ wait_result = "LicenseError" =>
              /\ wait_result' = "LicenseError"
              /\ exc' = LicenseError
              /\ pc' \in {"finally", "main_exit", "exited"}
              /\ phases' \in {phases, Append(phases, "Teardown")}
              /\ api_key' = "None"
              /\ child' = NoChild]_vars

\* a poll read both phrases and the session ended with the license error,
\* without bootstrap or command
C21_Witness ==
    /\ wait_result = "LicenseError"
    /\ BothInLogs(final_logs)
    /\ pc = "exited"
    /\ exc = LicenseError
    /\ ~Entered("Bootstrap")
    /\ ~Entered("RunCommand")
    /\ args.command = COMMAND_SOME

====
